---- MODULE Spec2Model ----
(***************************************************************************)
(* Acontext core: the session-message processing pipeline                  *)
(* (process_session_pending_message), the message renderer                 *)
(* (pack_message_line, MessageBlob.to_string), the application lifespan    *)
(* and the /health endpoint.                                               *)
(***************************************************************************)
EXTENDS Naturals, Sequences, FiniteSets, TLC

\* ------------------------------------------------------------------ bounds
MaxMsgs == 3
MaxQueue == 1
MaxProbes == 2
MaxParts == 2

\* message rows, by id (ids are assigned in creation order)
Msgs == 1..MaxMsgs
\* the session ids triggers name: a session and another one
Sessions == {1, 2}
\* two invocations of process_session_pending_message can run at a time
Procs == {1, 2}

VARIABLES
    \* storage: committed rows of the messages table
    status,         \* [Msgs -> "absent" | TaskStatus value]: session_task_process_status
    body,           \* [Msgs -> index into MessageBodies, 0 while absent]
    \* one slot per concurrently running process_session_pending_message
    pc,             \* position of the invocation in its code
    sid,            \* its session_id argument
    messages,       \* its local `messages` (ids of the fetched rows, in order)
    writes,         \* uncommitted status assignments of its transaction
    messages_data,  \* its local `messages_data` (MessageBlob snapshots)
    rendered,       \* index of the loop of lines 22-23
    eil,            \* its local `eil` (the error list of the fetch's Result)
    ret,            \* <<>>, or <<the outcome of the invocation>> once it has ended
    printed,        \* [Msgs -> how often its transcript was printed]
    \* consumer loop and lifespan
    queue,          \* [Sessions -> triggers waiting in the queue]
    consumer,       \* "running" | "halted" | "closed"
    excLogged,      \* exceptions the consumer loop has logged
    phase,          \* lifespan: "serving" | "cleaned"
    \* /health
    mq_ok, db_ok, s3_ok,   \* what the three health_check() calls return
    responses,             \* the responses served so far
    \* a MessageBlob being rendered on its own
    r_blob,         \* a MessageBlob
    r_lines,        \* the local `lines` of to_string
    r_out,          \* <<>>, or <<the outcome of r_blob.to_string()>>
    \* the projects table and a lookup of a project's configuration
    projects,       \* [ProjectIds -> "absent" | the row's `configs` column]
    cfg_out         \* <<>>, or <<project_id, the Result of get_project_config>>

pipeVars == <<status, body, pc, sid, messages, writes, messages_data, rendered,
              eil, ret, printed, queue, consumer, excLogged, phase>>
healthVars == <<mq_ok, db_ok, s3_ok, responses>>
renderVars == <<r_blob, r_lines, r_out>>
configVars == <<projects, cfg_out>>
vars == <<pipeVars, healthVars, renderVars, configVars>>

\* --------------------------------------------------------- Python values
\* A Python value: a str, None, or a dict (a sequence of <<key, value>>).
PyStr(x) == [t |-> "str", s |-> x, d |-> <<>>]
PyNone == [t |-> "None", s |-> "", d |-> <<>>]
PyDict(items) == [t |-> "dict", s |-> "", d |-> items]
PyInt(n) == [t |-> "int", s |-> "", d |-> <<n>>]

\* d[k] of a dict whose keys include k
DictGet(v, k) == v.d[CHOOSE i \in 1..Len(v.d) : v.d[i][1] = k][2]

RECURSIVE JoinStr(_, _)
\* sep.join(strs) for a sequence of TLA+ strings
JoinStr(sep, strs) ==
    IF Len(strs) = 0 THEN ""
    ELSE IF Len(strs) = 1 THEN strs[1]
    ELSE strs[1] \o sep \o JoinStr(sep, Tail(strs))

RECURSIVE PyRepr(_)
\* repr(v)
PyRepr(v) ==
    IF v.t = "str" THEN "'" \o v.s \o "'"
    ELSE IF v.t = "None" THEN "None"
    ELSE "{" \o JoinStr(", ", [i \in 1..Len(v.d) |->
                 "'" \o v.d[i][1] \o "': " \o PyRepr(v.d[i][2])]) \o "}"

\* format(v, ""), what an f-string does with {v}
Fmt(v) == IF v.t = "str" THEN v.s ELSE PyRepr(v)

\* the outcome of a call: a returned value or a raised exception
Return(v) == [raised |-> FALSE, exc |-> "", value |-> v]
Raise(e) == [raised |-> TRUE, exc |-> e, value |-> PyNone]

\* ---------------------------------------------------------------- renderer
STRING_TYPES == {"text", "tool-call", "tool-result"}

\* a Part row: type, text, filename, meta
Part(type, text, filename, meta) ==
    [type |-> type, text |-> text, filename |-> filename, meta |-> meta]

\* the rule for the kinds outside STRING_TYPES left out
pack_message_line_no_file_rule(role, part) ==
    IF part.type = "text"
    THEN PyStr("<" \o role \o "> " \o Fmt(part.text))
    ELSE IF part.type = "tool-call"
    THEN PyStr("<" \o role \o "> USE TOOL "
               \o Fmt(DictGet(part.meta, "function_name"))
               \o ", WITH PARAMS " \o Fmt(DictGet(part.meta, "parameters")))
    ELSE PyNone

pack_message_line(role, part) ==
    IF part.type \notin STRING_TYPES
    THEN PyStr("<" \o role \o "> [" \o part.type \o " file: "
               \o Fmt(part.filename) \o "]")
    ELSE IF part.type = "text"
    THEN PyStr("<" \o role \o "> " \o Fmt(part.text))
    ELSE IF part.type = "tool-call"
    THEN PyStr("<" \o role \o "> USE TOOL "
               \o Fmt(DictGet(part.meta, "function_name"))
               \o ", WITH PARAMS " \o Fmt(DictGet(part.meta, "parameters")))
    ELSE PyNone   \* the function ends without a return statement

\* "\n".join(lines): str.join raises TypeError on an item that is not a str
StrJoin(sep, lines) ==
    IF \E i \in 1..Len(lines) : lines[i].t # "str"
    THEN Raise("TypeError")
    ELSE Return(PyStr(JoinStr(sep, [i \in 1..Len(lines) |-> lines[i].s])))

MessageBlob(message_id, role, parts) ==
    [message_id |-> message_id, role |-> role, parts |-> parts]

Lines(blob) ==
    [i \in 1..Len(blob.parts) |-> pack_message_line(blob.role, blob.parts[i])]

to_string(blob) == StrJoin("\n", Lines(blob))

\* ------------------------------------------------------------------ /health
HTTP_200_OK == 200

\* the blob-store check left out
health_no_s3(mq, db, s3) ==
    IF ~mq THEN "MQ consumer error"
    ELSE IF ~db THEN "DB client error"
    ELSE "ok"

\* the storage check made before the queue check
health_db_first(mq, db, s3) ==
    IF ~db THEN "DB client error"
    ELSE IF ~mq THEN "MQ consumer error"
    ELSE IF ~s3 THEN "S3 client error"
    ELSE "ok"

health(mq, db, s3) ==
    IF ~mq THEN "MQ consumer error"
    ELSE IF ~db THEN "DB client error"
    ELSE IF ~s3 THEN "S3 client error"
    ELSE "ok"

\* the route returns its handler's str with the route's default status code
HealthResponse(mq, db, s3) ==
    [status_code |-> HTTP_200_OK, body |-> health(mq, db, s3)]

\* ------------------------------------------------------ get_project_config
\* Result.resolve(data) and Result.reject(message)
Resolve(data) == [ok |-> TRUE, data |-> data, errors |-> <<>>]
Reject(message) == [ok |-> FALSE, data |-> PyNone, errors |-> <<message>>]

ProjectIds == {"p1", "p2"}

\* no row of the projects table has the id
NoRow == [t |-> "absent", s |-> "", d |-> <<>>]

\* the values of a row's `configs` column: NULL, an empty mapping, a mapping
\* without the key project_config, a mapping with it
ConfigsValues == {
    PyNone,
    PyDict(<<>>),
    PyDict(<< <<"other", PyStr("x")>> >>),
    PyDict(<< <<"project_config", PyDict(<< <<"k", PyStr("v")>> >>)>> >>),
    PyDict(<< <<"other", PyStr("x")>>,
              <<"project_config", PyDict(<<>>)>> >>) }

DEFAULT_PROJECT_CONFIG == [t |-> "ProjectConfig", s |-> "default", d |-> <<>>]

\* ProjectConfig(**filter_value_from_json(j, ProjectConfig))
ProjectConfig(j) == [t |-> "ProjectConfig", s |-> "stored", d |-> j.d]

\* bool(v) of None or a dict
Truthy(v) == v.t = "dict" /\ Len(v.d) > 0
\* k in v, for a dict v
HasKey(v, k) == \E i \in 1..Len(v.d) : v.d[i][1] = k

\* lines 16-18: the first row with the id, or None
FirstProject(project_id) == projects[project_id]

get_project_config(project_id) ==
    LET project == FirstProject(project_id)
    IN  IF project = NoRow
        THEN Reject("Project not found: " \o project_id)
        ELSE IF ~Truthy(project) \/ ~HasKey(project, "project_config")
        THEN Resolve(DEFAULT_PROJECT_CONFIG)
        ELSE Resolve(ProjectConfig(DictGet(project, "project_config")))

\* ------------------------------------------------------------------- storage
\* TaskStatus values
PENDING == "pending"
RUNNING == "running"
COMPLETED == "completed"
FAILED == "failed"

\* what the API persists as the content of a message: role and ordered parts
MessageBodies == <<
    [role |-> "user",
     parts |-> <<Part("text", PyStr("hi"), PyNone, PyNone)>>],
    [role |-> "assistant",
     parts |-> <<Part("tool-result", PyNone, PyNone, PyNone)>>] >>

\* the session a message row belongs to (its session_id column)
SessionOf(m) == ((m - 1) % Cardinality(Sessions)) + 1

RECURSIVE SortedSeq(_)
\* the ids of a set of rows in creation order
SortedSeq(S) ==
    IF S = {} THEN <<>>
    ELSE LET lo == CHOOSE x \in S : \A y \in S : x <= y
         IN  <<lo>> \o SortedSeq(S \ {lo})

Range(seq) == {seq[i] : i \in 1..Len(seq)}

\* the transaction covering the fetch alone
TxnEndsAfterFetch(q) == pc[q] \in {"open", "rejected"}
\* lines 10-21: the invocation is inside its `async with` block, so its
\* transaction is open
InTransaction(q) == pc[q] \in {"open", "rejected", "fetched", "claimed"}

\* rows a transaction holds row locks on: those it fetched, until it ends
LockedBy(q) == IF InTransaction(q) THEN Range(messages[q]) ELSE {}

\* the committed rows matching session_id = s and status = st
Matching(s, st) == {m \in Msgs : SessionOf(m) = s /\ status[m] = st}

\* fetch_session_messages(session, session_id, status): the matching rows in
\* creation order, read under the row locks of the fetch-then-update unit; it
\* waits while another open transaction holds one of them
FetchBlocked(p, s, st) == \E q \in Procs \ {p} : LockedBy(q) \cap Matching(s, st) # {}
fetch_session_messages(s, st) == SortedSeq(Matching(s, st))

\* the transaction's commit on leaving the `async with` block
CommitWrites(st, w) == [m \in Msgs |-> IF m \in DOMAIN w THEN w[m] ELSE st[m]]

NoWrites == [m \in {} |-> RUNNING]

\* -------------------------------------------- process_session_pending_message
\* line 11: the status the fetch is asked for
FetchStatus == PENDING

\* a failure-requeue on the abort path
RequeueWrites(s) == [m \in Matching(s, RUNNING) |-> PENDING]
\* lines 13-15: what the invocation has assigned when it returns on a
\* rejected fetch
RejectedWrites(s) == NoWrites

\* the status assigned to every stored row, whatever was fetched
MarkEveryRow(ms) == [m \in {k \in Msgs : status[k] # "absent"} |-> RUNNING]
\* the loop of lines 16-17 left out
MarkNothing(ms) == NoWrites
\* marking only the first fetched row
MarkFirst(ms) == [m \in (IF ms = <<>> THEN {} ELSE {ms[1]}) |-> RUNNING]
\* lines 16-17: m.session_task_process_status = TaskStatus.RUNNING.value
MarkRunning(ms) == [m \in Range(ms) |-> RUNNING]

\* the snapshots built from messages[1:]
SnapshotRest(ms) ==
    [i \in 1..(IF ms = <<>> THEN 0 ELSE Len(ms) - 1) |->
        MessageBlob(ms[i + 1], MessageBodies[body[ms[i + 1]]].role,
                    MessageBodies[body[ms[i + 1]]].parts)]
\* lines 19-21: messages_data
Snapshot(ms) ==
    [i \in 1..Len(ms) |->
        MessageBlob(ms[i], MessageBodies[body[ms[i]]].role,
                    MessageBodies[body[ms[i]]].parts)]

\* an empty list of messages taken for an error as well
ErrorBranchTruthy(ms, e) == e # <<>> \/ ms = <<>>
\* line 13: `if eil:` is taken on a non-empty error list
ErrorBranch(ms, e) == e # <<>>

\* the error list of a rejected Result
StorageFault == <<"storage fault">>

\* the Part rows of a message row, owned by the session that loaded it
PartRows(m) == {<<m, i>> : i \in 1..Len(MessageBodies[body[m]].parts)}

\* line 20: parts=m.parts hands a MessageBlob the Part rows of m themselves
BlobParts(blob) == PartRows(blob.message_id)

\* the Part rows the session of an invocation has loaded
SessionRows(p) == UNION {PartRows(m) : m \in Range(messages[p])}

\* lines 22-23: the Part rows whose attributes the next print(m.to_string())
\* reads
RenderReads(p) ==
    IF pc[p] = "rendering" /\ rendered[p] < Len(messages_data[p])
    THEN BlobParts(messages_data[p][rendered[p] + 1])
    ELSE {}

\* the function has left its frame: its locals are gone
DropLocals(p) ==
    /\ eil' = [eil EXCEPT ![p] = <<>>]
    /\ messages' = [messages EXCEPT ![p] = <<>>]
    /\ writes' = [writes EXCEPT ![p] = NoWrites]
    /\ messages_data' = [messages_data EXCEPT ![p] = <<>>]
    /\ rendered' = [rendered EXCEPT ![p] = 0]

\* lines 11-12 with a resolved Result: messages is the fetched list
FetchOk(p) ==
    /\ pc[p] = "open"
    /\ ~FetchBlocked(p, sid[p], FetchStatus)
    /\ messages' = [messages EXCEPT ![p] = fetch_session_messages(sid[p], FetchStatus)]
    /\ eil' = [eil EXCEPT ![p] = <<>>]
    /\ pc' = [pc EXCEPT ![p] =
                 IF ErrorBranch(messages'[p], eil'[p]) THEN "rejected" ELSE "fetched"]
    /\ UNCHANGED <<status, body, sid, writes, messages_data, rendered, ret,
                   printed, queue, consumer, excLogged, phase,
                   healthVars, renderVars, configVars>>

\* lines 11-15 with a rejected Result: LOG.error, then return
FetchRejected(p) ==
    /\ pc[p] = "open"
    /\ eil' = [eil EXCEPT ![p] = StorageFault]
    /\ ErrorBranch(messages[p], eil'[p])
    /\ writes' = [writes EXCEPT ![p] = RejectedWrites(sid[p])]
    /\ pc' = [pc EXCEPT ![p] = "rejected"]
    /\ UNCHANGED <<status, body, sid, messages, messages_data, rendered, ret,
                   printed, queue, consumer, excLogged, phase,
                   healthVars, renderVars, configVars>>

\* line 15: the return leaves the `async with` block, which ends the
\* transaction
ExitRejected(p) ==
    /\ pc[p] = "rejected"
    /\ status' = CommitWrites(status, writes[p])
    /\ writes' = [writes EXCEPT ![p] = NoWrites]
    /\ pc' = [pc EXCEPT ![p] = "aborted"]
    /\ eil' = [eil EXCEPT ![p] = <<>>]
    /\ ret' = [ret EXCEPT ![p] = <<Return(PyNone)>>]
    /\ UNCHANGED <<body, sid, messages, messages_data, rendered, printed,
                   queue, consumer, excLogged, phase,
                   healthVars, renderVars, configVars>>

\* lines 16-21: mark every fetched message RUNNING, then build messages_data
Claim(p) ==
    /\ pc[p] = "fetched"
    /\ writes' = [writes EXCEPT ![p] = MarkRunning(messages[p])]
    /\ messages_data' = [messages_data EXCEPT ![p] = Snapshot(messages[p])]
    /\ pc' = [pc EXCEPT ![p] = "claimed"]
    /\ UNCHANGED <<status, body, sid, messages, rendered, eil, ret, printed,
                   queue, consumer, excLogged, phase,
                   healthVars, renderVars, configVars>>

\* line 21 -> 22: the `async with` block ends, the transaction commits
Commit(p) ==
    /\ pc[p] = "claimed"
    /\ status' = CommitWrites(status, writes[p])
    /\ writes' = [writes EXCEPT ![p] = NoWrites]
    /\ pc' = [pc EXCEPT ![p] = "rendering"]
    /\ UNCHANGED <<body, sid, messages, messages_data, rendered, eil, ret, printed,
                   queue, consumer, excLogged, phase,
                   healthVars, renderVars, configVars>>

\* lines 22-23: print(m.to_string()) for the next snapshot; an exception of
\* to_string leaves the function
Render(p) ==
    /\ pc[p] = "rendering"
    /\ rendered[p] < Len(messages_data[p])
    /\ LET blob == messages_data[p][rendered[p] + 1]
           out == to_string(blob)
       IN  IF out.raised
           THEN /\ pc' = [pc EXCEPT ![p] = "raised"]
                /\ ret' = [ret EXCEPT ![p] = <<Raise(out.exc)>>]
                /\ DropLocals(p)
                /\ UNCHANGED printed
           ELSE /\ rendered' = [rendered EXCEPT ![p] = @ + 1]
                /\ printed' = [printed EXCEPT ![blob.message_id] = @ + 1]
                /\ UNCHANGED <<pc, messages, writes, messages_data, eil, ret>>
    /\ UNCHANGED <<status, body, sid, queue, consumer, excLogged, phase,
                   healthVars, renderVars, configVars>>

\* line 25: the loop is over, the function returns None
Finish(p) ==
    /\ pc[p] = "rendering"
    /\ rendered[p] = Len(messages_data[p])
    /\ pc' = [pc EXCEPT ![p] = "done"]
    /\ ret' = [ret EXCEPT ![p] = <<Return(PyNone)>>]
    /\ DropLocals(p)
    /\ UNCHANGED <<status, body, sid, printed, queue, consumer, excLogged,
                   phase, healthVars, renderVars, configVars>>

\* ------------------------------------------------------------ consumer loop
\* the loop stops on an exception of the handler
HaltLoop(c) == "halted"
\* the loop logs an exception of the handler and goes on to the next trigger
AfterHandlerException(c) == c

\* the loop takes a trigger for session s off the queue and starts the handler
\* in a free slot; the handler's first step (line 10) opens its transaction:
\* async with DB_CLIENT.get_session_context() as session
Deliver(p, s) ==
    /\ consumer = "running"
    /\ queue[s] > 0
    /\ pc[p] = "idle"
    /\ queue' = [queue EXCEPT ![s] = @ - 1]
    /\ pc' = [pc EXCEPT ![p] = "open"]
    /\ sid' = [sid EXCEPT ![p] = s]
    /\ UNCHANGED <<status, body, messages, writes, messages_data, rendered,
                   eil, ret, printed, consumer, excLogged, phase,
                   healthVars, renderVars, configVars>>

\* the loop awaits each handler before it takes the next trigger: every
\* earlier invocation has returned to it when one starts, in the first slot
DeliverOne(s) ==
    /\ \A q \in Procs : pc[q] = "idle"
    /\ Deliver(CHOOSE p \in Procs : \A q \in Procs : p <= q, s)

\* the invocation has returned to the loop
ReturnToLoop(p) ==
    /\ pc[p] \in {"done", "aborted"}
    /\ pc' = [pc EXCEPT ![p] = "idle"]
    /\ sid' = [sid EXCEPT ![p] = 0]
    /\ ret' = [ret EXCEPT ![p] = <<>>]
    /\ UNCHANGED <<status, body, messages, writes, messages_data, rendered,
                   eil, printed, queue, consumer, excLogged, phase,
                   healthVars, renderVars, configVars>>

\* the invocation has raised into the loop
HandlerRaised(p) ==
    /\ pc[p] = "raised"
    /\ pc' = [pc EXCEPT ![p] = "idle"]
    /\ sid' = [sid EXCEPT ![p] = 0]
    /\ excLogged' = excLogged + 1
    /\ consumer' = AfterHandlerException(consumer)
    /\ ret' = [ret EXCEPT ![p] = <<>>]
    /\ UNCHANGED <<status, body, messages, writes, messages_data, rendered,
                   eil, printed, queue, phase, healthVars, renderVars, configVars>>

\* ------------------------------------------------------------------ lifespan
\* lines 13-15: on shutdown the lifespan resumes after its yield and awaits
\* cleanup(), the teardown of the storage, queue and blob-store clients
Cleanup ==
    /\ phase = "serving"
    /\ phase' = "cleaned"
    /\ consumer' = IF consumer = "running" THEN "closed" ELSE consumer
    /\ UNCHANGED <<status, body, pc, sid, messages, writes, messages_data,
                   rendered, eil, ret, printed, queue, excLogged,
                   healthVars, renderVars, configVars>>

\* --------------------------------------------------------------- environment
\* the API persists the next message, of session SessionOf(m) and with content
\* MessageBodies[b]; it is created as PENDING
Persist(m, b) ==
    /\ status[m] = "absent"
    /\ \A k \in 1..(m - 1) : status[k] # "absent"
    /\ status' = [status EXCEPT ![m] = PENDING]
    /\ body' = [body EXCEPT ![m] = b]
    /\ UNCHANGED <<pc, sid, messages, writes, messages_data, rendered, eil, ret,
                   printed, queue, consumer, excLogged, phase,
                   healthVars, renderVars, configVars>>

\* a trigger naming session s is put on the queue
Enqueue(s) ==
    /\ queue[s] < MaxQueue
    /\ queue' = [queue EXCEPT ![s] = @ + 1]
    /\ UNCHANGED <<status, body, pc, sid, messages, writes, messages_data,
                   rendered, eil, ret, printed, consumer, excLogged, phase,
                   healthVars, renderVars, configVars>>

\* the dispatch step that is to follow rendering sets a RUNNING message to
\* its terminal status
MarkTerminal(m, outcome) ==
    /\ status[m] = RUNNING
    /\ status' = [status EXCEPT ![m] = outcome]
    /\ UNCHANGED <<body, pc, sid, messages, writes, messages_data, rendered,
                   eil, ret, printed, queue, consumer, excLogged, phase,
                   healthVars, renderVars, configVars>>

\* ------------------------------------------------------------ specifications
PipeInit ==
    /\ status = [m \in Msgs |-> "absent"]
    /\ body = [m \in Msgs |-> 0]
    /\ pc = [p \in Procs |-> "idle"]
    /\ sid = [p \in Procs |-> 0]
    /\ messages = [p \in Procs |-> <<>>]
    /\ writes = [p \in Procs |-> NoWrites]
    /\ messages_data = [p \in Procs |-> <<>>]
    /\ rendered = [p \in Procs |-> 0]
    /\ eil = [p \in Procs |-> <<>>]
    /\ ret = [p \in Procs |-> <<>>]
    /\ printed = [m \in Msgs |-> 0]
    /\ queue = [s \in Sessions |-> 0]
    /\ consumer = "running"
    /\ excLogged = 0
    /\ phase = "serving"

HealthInit0 ==
    /\ mq_ok = TRUE
    /\ db_ok = TRUE
    /\ s3_ok = TRUE
    /\ responses = <<>>

RenderInit0 ==
    /\ r_blob = MessageBlob(0, "", <<>>)
    /\ r_lines = <<>>
    /\ r_out = <<>>

ConfigInit0 ==
    /\ projects = [i \in ProjectIds |-> NoRow]
    /\ cfg_out = <<>>

Init == PipeInit /\ HealthInit0 /\ RenderInit0 /\ ConfigInit0

Step(p) ==
    \/ FetchOk(p)
    \/ FetchRejected(p)
    \/ ExitRejected(p)
    \/ Claim(p)
    \/ Commit(p)
    \/ Render(p)
    \/ Finish(p)
    \/ ReturnToLoop(p)
    \/ HandlerRaised(p)

PipeNext ==
    \/ \E p \in Procs : Step(p)
    \/ \E p \in Procs, s \in Sessions : Deliver(p, s)
    \/ \E m \in Msgs, b \in 1..Len(MessageBodies) : Persist(m, b)
    \/ \E s \in Sessions : Enqueue(s)

Next == PipeNext

\* the pipeline while the application serves
Spec == Init /\ [][Next]_vars

LifespanNext ==
    \/ PipeNext
    \/ Cleanup

\* the pipeline with a loop that handles one trigger at a time, under fair
\* scheduling: the invocation in flight takes its steps, triggers keep
\* being put on the queue and taken off it, and the storage does not reject
\* the fetches of a session forever
Fairness ==
    /\ WF_vars(\E p \in Procs : Step(p))
    /\ \A s \in Sessions : WF_vars(Enqueue(s))
    /\ \A s \in Sessions : SF_vars(DeliverOne(s))
    /\ \A s \in Sessions : SF_vars(\E p \in Procs : FetchOk(p) /\ sid[p] = s)

LiveNext ==
    \/ \E p \in Procs : Step(p)
    \/ \E s \in Sessions : DeliverOne(s)
    \/ \E m \in Msgs, b \in 1..Len(MessageBodies) : Persist(m, b)
    \/ \E s \in Sessions : Enqueue(s)

LiveSpec == Init /\ [][LiveNext]_vars /\ Fairness

\* the content of the messages of a run in which contents alternate
BodyOf(m) == (m % Len(MessageBodies)) + 1

\* the pipeline next to a dispatch step that completes or fails the messages
\* it has claimed
FrameNext ==
    \/ \E p \in Procs : Step(p)
    \/ \E p \in Procs, s \in Sessions : Deliver(p, s)
    \/ \E m \in Msgs : Persist(m, BodyOf(m))
    \/ \E s \in Sessions : Enqueue(s)
    \/ \E m \in Msgs, o \in {COMPLETED, FAILED} : MarkTerminal(m, o)

FrameSpec == Init /\ [][FrameNext]_vars

\* the pipeline and the application's shutdown
LifespanSpec == Init /\ [][LifespanNext]_vars

\* ------------------------------------------------------------ /health probes
\* a collaborator's health changes
Flip(c) ==
    /\ mq_ok' = IF c = "mq" THEN ~mq_ok ELSE mq_ok
    /\ db_ok' = IF c = "db" THEN ~db_ok ELSE db_ok
    /\ s3_ok' = IF c = "s3" THEN ~s3_ok ELSE s3_ok
    /\ UNCHANGED <<responses, pipeVars, renderVars, configVars>>

\* GET /health is served
Probe ==
    /\ Len(responses) < MaxProbes
    /\ responses' = Append(responses, HealthResponse(mq_ok, db_ok, s3_ok))
    /\ UNCHANGED <<mq_ok, db_ok, s3_ok, pipeVars, renderVars, configVars>>

HealthInit ==
    /\ PipeInit
    /\ RenderInit0
    /\ mq_ok \in BOOLEAN
    /\ db_ok \in BOOLEAN
    /\ s3_ok \in BOOLEAN
    /\ responses = <<>>
    /\ ConfigInit0

HealthNext ==
    \/ \E c \in {"mq", "db", "s3"} : Flip(c)
    \/ Probe

HealthSpec == HealthInit /\ [][HealthNext]_vars

\* ------------------------------------------- looking up a project's config
\* a project row is created, its configs column is set, the row is deleted
PutProject(i, c) ==
    /\ projects[i] # c
    /\ projects' = [projects EXCEPT ![i] = c]
    /\ UNCHANGED <<cfg_out, pipeVars, healthVars, renderVars>>

DeleteProject(i) ==
    /\ projects[i] # NoRow
    /\ projects' = [projects EXCEPT ![i] = NoRow]
    /\ UNCHANGED <<cfg_out, pipeVars, healthVars, renderVars>>

\* get_project_config(db_session, i) is called
GetProjectConfig(i) ==
    /\ cfg_out' = <<i, get_project_config(i)>>
    /\ UNCHANGED <<projects, pipeVars, healthVars, renderVars>>

ConfigNext ==
    \/ \E i \in ProjectIds, c \in ConfigsValues : PutProject(i, c)
    \/ \E i \in ProjectIds : DeleteProject(i)
    \/ \E i \in ProjectIds : GetProjectConfig(i)

ConfigSpec == Init /\ [][ConfigNext]_vars

\* ------------------------------------------------- rendering a MessageBlob
Roles == {"user", "assistant"}

PartValues == {
    Part("text", PyStr("hi"), PyNone, PyNone),
    Part("tool-call", PyNone, PyNone,
         PyDict(<< <<"function_name", PyStr("search")>>,
                   <<"parameters", PyDict(<< <<"q", PyStr("x")>> >>)>> >>)),
    Part("tool-result", PyNone, PyNone, PyNone),
    Part("file", PyNone, PyStr("a.png"), PyNone),
    Part("image", PyNone, PyNone, PyNone) }

PartSeqs == UNION {[1..n -> PartValues] : n \in 0..MaxParts}

\* r_blob.to_string() is called
RenderBlob ==
    /\ r_out = <<>>
    /\ r_lines' = Lines(r_blob)
    /\ r_out' = <<StrJoin("\n", r_lines')>>
    /\ UNCHANGED <<r_blob, pipeVars, healthVars, configVars>>

RenderInit ==
    /\ PipeInit
    /\ HealthInit0
    /\ r_blob \in {MessageBlob(1, r, ps) : r \in Roles, ps \in PartSeqs}
    /\ r_lines = <<>>
    /\ r_out = <<>>
    /\ ConfigInit0

RenderNext == RenderBlob

RenderSpec == RenderInit /\ [][RenderNext]_vars

\* ==================================================================== claims
\* the response a step has just served
Served == responses'[Len(responses')]
ProbeStep == Len(responses') > Len(responses)

\* C7: the health endpoint answers "ok" if and only if all three health
\* checks return true; any single collaborator turned unhealthy makes the
\* answer not "ok".
C7_OkIffAllHealthy ==
    [][ProbeStep => (Served.body = "ok" <=> (mq_ok /\ db_ok /\ s3_ok))]_vars

\* an "ok" answer and a later answer that is not "ok", with one collaborator down
C7_Witness ==
    /\ Len(responses) = 2
    /\ responses[1].body = "ok"
    /\ responses[2].body # "ok"
    /\ Cardinality({c \in {"mq", "db", "s3"} :
           ~(IF c = "mq" THEN mq_ok ELSE IF c = "db" THEN db_ok ELSE s3_ok)}) = 1

\* the collaborators in check order, and the label each failure is reported by
CheckOrder == <<"mq", "db", "s3">>
FailureLabel == [mq |-> "MQ consumer error", db |-> "DB client error",
                 s3 |-> "S3 client error"]
Healthy(c) == IF c = "mq" THEN mq_ok ELSE IF c = "db" THEN db_ok ELSE s3_ok
FirstUnhealthy ==
    CheckOrder[CHOOSE i \in 1..3 :
        /\ ~Healthy(CheckOrder[i])
        /\ \A j \in 1..(i - 1) : Healthy(CheckOrder[j])]

\* C8: with at least one collaborator unhealthy, the health endpoint answers
\* the failure label of the first unhealthy collaborator in check order
\* (queue, storage, blob store): one label, also when several are unhealthy.
C8_FirstUnhealthyLabel ==
    [][(ProbeStep /\ ~(mq_ok /\ db_ok /\ s3_ok))
        => Served.body = FailureLabel[FirstUnhealthy]]_vars

\* queue and storage both unhealthy, and the queue's label was answered
C8_Witness ==
    /\ Len(responses) > 0
    /\ ~mq_ok /\ ~db_ok
    /\ responses[Len(responses)].body = "MQ consumer error"

\* C9: an answer of the health endpoint for an unhealthy collaborator is a
\* non-success response (its status code is not a 2xx one).
C9_UnhealthyIsNonSuccess ==
    \A i \in 1..Len(responses) :
        responses[i].body # "ok" => responses[i].status_code \notin 200..299

\* C10: rendering never raises: every part of every kind renders to a text
\* line and to_string returns the transcript.
C10_RenderingNeverRaises ==
    r_out # <<>> =>
        /\ ~r_out[1].raised
        /\ r_out[1].value.t = "str"
        /\ \A i \in 1..Len(r_blob.parts) :
               pack_message_line(r_blob.role, r_blob.parts[i]).t = "str"

\* the ids an invocation has fetched, marked or snapshotted
ClaimedBy(p) ==
    Range(messages[p]) \cup DOMAIN writes[p]
        \cup {messages_data[p][i].message_id : i \in 1..Len(messages_data[p])}

\* C1: the sets of message ids two concurrent invocations claim are
\* disjoint, at every point of every interleaving of their steps.
C1_ClaimsDisjoint ==
    \A p, q \in Procs : p # q => ClaimedBy(p) \cap ClaimedBy(q) = {}

\* two invocations for the same session, each holding a claimed message
C1_Witness ==
    \E p, q \in Procs :
        /\ p # q
        /\ sid[p] = sid[q]
        /\ pc[p] = "rendering" /\ messages_data[p] # <<>>
        /\ pc[q] = "claimed" /\ messages_data[q] # <<>>

\* C2: a message whose committed status is RUNNING is never put back to
\* PENDING, whatever invocation takes a step.
C2_NoRegression ==
    [][\A m \in Msgs : status[m] = RUNNING => status'[m] # PENDING]_vars

\* an invocation has aborted on a session that has a RUNNING message
C2_Witness ==
    \E p \in Procs, m \in Msgs :
        /\ pc[p] = "aborted"
        /\ SessionOf(m) = sid[p]
        /\ status[m] = RUNNING

\* C3: an invocation whose fetch is rejected holds no status assignment, no
\* fetched message and no snapshot, has rendered nothing, and ends aborted
\* with every committed status and every printed transcript as they were.
C3_RejectedChangesNothing ==
    /\ [](\A p \in Procs : pc[p] \in {"rejected", "aborted"} =>
            /\ writes[p] = NoWrites
            /\ messages[p] = <<>>
            /\ messages_data[p] = <<>>
            /\ rendered[p] = 0)
    /\ [][\A p \in Procs :
            /\ (pc[p] = "open" /\ pc'[p] = "rejected") =>
                   (status' = status /\ printed' = printed)
            /\ (pc[p] = "rejected" /\ pc'[p] # "rejected") =>
                   (pc'[p] = "aborted" /\ status' = status /\ printed' = printed)
         ]_vars

\* an aborted invocation on a session that again has a PENDING message, next
\* to a RUNNING one
C3_Witness ==
    \E p \in Procs, m, k \in Msgs :
        /\ pc[p] = "aborted"
        /\ SessionOf(m) = sid[p] /\ status[m] = PENDING
        /\ SessionOf(k) = sid[p] /\ status[k] = RUNNING

\* the ids of the snapshots an invocation holds
SnapshotIds(p) == {messages_data[p][i].message_id : i \in 1..Len(messages_data[p])}

\* C4: a PENDING message is never lost: it stays PENDING until it is claimed,
\* a successful fetch returns every PENDING message of its session, the commit
\* leaves every fetched message RUNNING, and under fair delivery of triggers
\* every PENDING message is eventually claimed.
C4_NoMessageLost ==
    /\ [][\A m \in Msgs : status[m] = PENDING => status'[m] \in {PENDING, RUNNING}]_vars
    /\ [][\A p \in Procs :
            /\ (pc[p] = "open" /\ pc'[p] = "fetched") =>
                   Range(messages'[p]) = Matching(sid[p], PENDING)
            /\ (pc[p] = "claimed" /\ pc'[p] = "rendering") =>
                   \A m \in Range(messages[p]) : status'[m] = RUNNING
         ]_vars
    /\ \A m \in Msgs : (status[m] = PENDING) ~> (status[m] = RUNNING)

\* message 3 was persisted after the fetch of the invocation that claimed
\* message 1 of its session, and a later invocation for that session has
\* claimed it
C4_Witness ==
    \E q \in Procs :
        /\ sid[q] = SessionOf(3)
        /\ SessionOf(1) = SessionOf(3)
        /\ status[1] = RUNNING
        /\ pc[q] = "rendering"
        /\ SnapshotIds(q) = {3}
        /\ status[3] = RUNNING

\* C5: an exception of an invocation does not stop the consumer loop: the
\* loop is still running after it has logged the exception, and a trigger
\* that waits in the queue after that is taken off it.
C5_ConsumerSurvives ==
    /\ [](excLogged > 0 => consumer = "running")
    /\ \A s \in Sessions :
           (excLogged > 0 /\ queue[s] = MaxQueue) ~> (queue[s] < MaxQueue)

\* after the loop has logged an exception, the invocation for a later trigger
\* has claimed a message and finished rendering it
C5_Witness ==
    \E p \in Procs :
        /\ excLogged > 0
        /\ pc[p] = "rendering"
        /\ Len(messages_data[p]) > 0
        /\ rendered[p] = Len(messages_data[p])

\* C6: the dependency cleanup has run only when no invocation is in flight:
\* none is inside its transaction, between claiming and rendering, or still
\* rendering.
C6_CleanupAfterDrain ==
    phase = "cleaned" => \A p \in Procs : pc[p] \in {"idle", "done", "aborted", "raised"}

\* the kinds that have a rule of their own
RuledKinds == {"text", "tool-call", "tool-result"}

\* C11: pack_message_line follows its rules in order: a part whose kind is
\* outside {text, tool-call, tool-result} renders as
\* "<role> [kind file: filename]", a text part as "<role> " followed by its
\* text, a tool-call part as "<role> USE TOOL function_name, WITH PARAMS
\* parameters" from its metadata; equal (role, part) give equal lines.
C11_LineFollowsRules ==
    r_out # <<>> =>
        /\ Len(r_lines) = Len(r_blob.parts)
        /\ \A i \in 1..Len(r_blob.parts) :
             LET part == r_blob.parts[i]
                 head == "<" \o r_blob.role \o "> "
             IN  /\ part.type \notin RuledKinds =>
                        r_lines[i] = PyStr(head \o "[" \o part.type \o " file: "
                                           \o Fmt(part.filename) \o "]")
                 /\ part.type = "text" =>
                        r_lines[i] = PyStr(head \o Fmt(part.text))
                 /\ part.type = "tool-call" =>
                        r_lines[i] = PyStr(head \o "USE TOOL "
                            \o Fmt(DictGet(part.meta, "function_name"))
                            \o ", WITH PARAMS "
                            \o Fmt(DictGet(part.meta, "parameters")))
        /\ \A i, j \in 1..Len(r_blob.parts) :
             r_blob.parts[i] = r_blob.parts[j] => r_lines[i] = r_lines[j]
        /\ (r_blob.role = "user" /\ Len(r_blob.parts) > 0) =>
             /\ r_blob.parts[1] = Part("text", PyStr("hi"), PyNone, PyNone) =>
                    r_lines[1].s = "<user> hi"
             /\ r_blob.parts[1].type = "tool-call" =>
                    r_lines[1].s = "<user> USE TOOL search, WITH PARAMS {'q': 'x'}"
             /\ r_blob.parts[1].type = "file" =>
                    r_lines[1].s = "<user> [file file: a.png]"

\* a file part and a tool-call part of one message have been rendered
C11_Witness ==
    /\ r_out # <<>>
    /\ r_lines = << PyStr("<user> [file file: a.png]"),
                    PyStr("<user> USE TOOL search, WITH PARAMS {'q': 'x'}") >>

\* C12: the transcript of a message with n parts is the newline-joined
\* sequence of n lines, line i being the rendering of part i; an empty part
\* list gives the empty transcript.
C12_TranscriptIsJoinedLines ==
    r_out # <<>> =>
        /\ ~r_out[1].raised
        /\ Len(r_lines) = Len(r_blob.parts)
        /\ \A i \in 1..Len(r_lines) :
             /\ r_lines[i] = pack_message_line(r_blob.role, r_blob.parts[i])
             /\ r_lines[i].t = "str"
        /\ r_out[1].value =
             PyStr(JoinStr("\n", [i \in 1..Len(r_lines) |-> r_lines[i].s]))
        /\ (r_blob.parts = <<>> => r_out[1].value = PyStr(""))

\* the invocation has fetched successfully and the list is empty
EmptyFetched(p) ==
    /\ pc[p] \in {"fetched", "claimed", "rendering"}
    /\ messages[p] = <<>>

\* C13: a session with no pending messages is not an error: an invocation
\* whose fetch returns success is never in the error branch, and with an empty
\* list it assigns, snapshots and renders nothing, its transaction ends with
\* every committed status as it was, and it goes on to done.
C13_EmptyFetchIsNotAnError ==
    /\ [](\A p \in Procs : pc[p] = "rejected" => eil[p] # <<>>)
    /\ [](\A p \in Procs : EmptyFetched(p) =>
            /\ writes[p] = NoWrites
            /\ messages_data[p] = <<>>
            /\ rendered[p] = 0)
    /\ [][\A p \in Procs :
            /\ (pc[p] = "open" /\ pc'[p] # "open" /\ eil'[p] = <<>>) =>
                   pc'[p] = "fetched"
            /\ (EmptyFetched(p) /\ pc'[p] # pc[p]) =>
                   /\ status' = status
                   /\ printed' = printed
                   /\ pc[p] = "fetched" => pc'[p] = "claimed"
                   /\ pc[p] = "claimed" => pc'[p] = "rendering"
                   /\ pc[p] = "rendering" =>
                          (pc'[p] = "done" /\ ~ret'[p][1].raised)
         ]_vars

\* an invocation has fetched an empty list for a session that has a RUNNING
\* message, and its transaction has ended
C13_Witness ==
    \E p \in Procs, m \in Msgs :
        /\ pc[p] = "rendering"
        /\ messages[p] = <<>>
        /\ SessionOf(m) = sid[p]
        /\ status[m] = RUNNING

\* the project has no row, or its row stores no project_config
NotFound(i) ==
    \/ projects[i] = NoRow
    \/ projects[i] = PyNone
    \/ projects[i].t = "dict" /\ \A k \in 1..Len(projects[i].d) :
                                    projects[i].d[k][1] # "project_config"

\* C14: not-found conditions are never errors in the project-config lookup:
\* whether no project record exists or the project stores no project_config,
\* get_project_config returns a successful Result carrying the default
\* project configuration.
C14_NotFoundGivesDefault ==
    [][\A i \in ProjectIds :
         (cfg_out' # cfg_out /\ cfg_out'[1] = i /\ NotFound(i)) =>
             /\ cfg_out'[2].ok
             /\ cfg_out'[2].errors = <<>>
             /\ cfg_out'[2].data = DEFAULT_PROJECT_CONFIG
      ]_vars

\* C15: an invocation returns to its caller the count of messages it
\* processed and any error recorded: a done invocation returns the number of
\* messages it claimed, and the return value of an aborted invocation differs
\* from that of a done one.
C15_ReturnsCountAndError ==
    /\ [][\A p \in Procs :
            (pc[p] = "rendering" /\ pc'[p] = "done") =>
                ret'[p] = <<Return(PyInt(Len(messages_data[p])))>>
         ]_vars
    /\ [](\A p, q \in Procs :
            (pc[p] = "done" /\ pc[q] = "aborted") => ret[p] # ret[q])

\* the invocation leaves the block of lines 10-21 for the rendering loop
Commits(p) == pc[p] = "claimed" /\ pc'[p] = "rendering"

\* C16: claiming is all-or-nothing inside one transaction: when the
\* transaction of a successful invocation closes, every fetched message is
\* committed RUNNING, and the snapshot ids, the ids assigned RUNNING and the
\* ids whose committed status changes are one and the same set, the fetched
\* ids.
C16_ClaimAllOrNothing ==
    /\ [](\A p \in Procs : pc[p] = "claimed" =>
            /\ SnapshotIds(p) = Range(messages[p])
            /\ DOMAIN writes[p] = Range(messages[p])
            /\ \A m \in DOMAIN writes[p] : writes[p][m] = RUNNING)
    /\ [][\A p \in Procs : Commits(p) =>
            /\ \A m \in Range(messages[p]) :
                   status[m] = PENDING /\ status'[m] = RUNNING
            /\ {m \in Msgs : status'[m] # status[m]} = SnapshotIds(p)
            /\ SnapshotIds(p)' = SnapshotIds(p)
         ]_vars

\* an invocation has committed its claim of two messages
C16_Witness ==
    \E p \in Procs :
        /\ pc[p] = "rendering"
        /\ Len(messages_data[p]) = 2
        /\ rendered[p] = 0
        /\ \A m \in SnapshotIds(p) : status[m] = RUNNING

\* the invocation runs print(m.to_string()) for its next snapshot
Renders(p) ==
    /\ pc[p] = "rendering"
    /\ rendered'[p] > rendered[p] \/ pc'[p] = "raised"

C18_EndsDoneOrAbortedReleased ==
    \A p \in Procs : ret[p] # <<>> =>
        /\ pc[p] \in {"done", "aborted"}
        /\ ~InTransaction(p)
        /\ writes[p] = NoWrites

\* C19: an invocation for session S writes only the status of messages that
\* were PENDING in S at its fetch, and only the value RUNNING: its
\* assignments are to fetched rows of S that are PENDING, and a step of an
\* invocation changes no committed status of another session, nor one that
\* is RUNNING, COMPLETED or FAILED.
C19_WritesOnlyOwnPending ==
    /\ [](\A p \in Procs : \A m \in DOMAIN writes[p] :
            /\ m \in Range(messages[p])
            /\ SessionOf(m) = sid[p]
            /\ status[m] = PENDING
            /\ writes[p][m] = RUNNING)
    /\ [][\A p \in Procs : pc'[p] # pc[p] =>
            \A m \in Msgs : status'[m] # status[m] =>
                /\ m \in Range(messages[p])
                /\ SessionOf(m) = sid[p]
                /\ status[m] = PENDING
                /\ status'[m] = RUNNING
         ]_vars

\* invocations for two sessions hold claims at the same time, next to a
\* COMPLETED message of the first session
C19_Witness ==
    \E p, q \in Procs :
        /\ sid[p] = SessionOf(3) /\ pc[p] = "claimed" /\ DOMAIN writes[p] = {3}
        /\ sid[q] = SessionOf(2) /\ pc[q] = "claimed" /\ DOMAIN writes[q] = {2}
        /\ SessionOf(2) # SessionOf(3)
        /\ SessionOf(1) = SessionOf(3)
        /\ status[1] = COMPLETED

\* C20: over the invocations for a session each message is snapshotted and
\* rendered at most once: a fetch returns only messages that are PENDING and
\* were never printed, a commit claims only PENDING messages, and no
\* transcript is printed twice.
C20_RenderedAtMostOnce ==
    /\ [](\A m \in Msgs : printed[m] <= 1)
    /\ [][\A p \in Procs :
            /\ (pc[p] = "open" /\ pc'[p] = "fetched") =>
                   \A m \in Range(messages'[p]) :
                       status[m] = PENDING /\ printed[m] = 0
            /\ Commits(p) =>
                   \A m \in SnapshotIds(p) : status[m] = PENDING /\ printed[m] = 0
         ]_vars

\* message 1 was claimed and printed by an invocation that has returned, and
\* a later invocation for its session has claimed message 3 alone
C20_Witness ==
    \E p \in Procs :
        /\ \A q \in Procs \ {p} : pc[q] = "idle"
        /\ pc[p] = "claimed"
        /\ sid[p] = SessionOf(1)
        /\ SnapshotIds(p) = {3}
        /\ status[1] = RUNNING
        /\ printed[1] = 1

====
